---- MODULE Spec2Model ----
(***************************************************************************)
(* State-machine model of src/src/index.ts: the Discord direct-message     *)
(* relay.  One handler task per inbound message (the messageCreate         *)
(* listener), the shared userCooldowns map, the clearBotDirectMessages     *)
(* loop and the periodic cleanup callback.                                 *)
(*                                                                         *)
(* Granularity: JavaScript runs one task at a time and a task can only be  *)
(* interleaved with another at an await.  Every action below is therefore  *)
(* "resume from the await named by pc[h] with the outcome of the awaited   *)
(* promise, and run synchronously up to the next await (or the return)".   *)
(*                                                                         *)
(* Strings.  A text is a sequence of blocks [i |-> id, len |-> n]: block   *)
(* i stands for n characters that occur nowhere else.  The handler only    *)
(* ever concatenates texts and reads their length, so concatenation is     *)
(* sequence concatenation (an empty string contributes no block) and       *)
(* .length is the sum of the block lengths.  A tool identifier is a        *)
(* sequence of segments, so that includes() and replace() can be computed. *)
(***************************************************************************)
EXTENDS Integers, Sequences, FiniteSets, TLC

\* ------------------------------------------------------------ constants
MAX_MESSAGE_LENGTH == 2000
DISCORD_MESSAGE_LENGTH_LIMIT == 1990
COOLDOWN_PERIOD == 10000
FETCH_LIMIT == 100
DELETE_DELAY == 1000
SWEEP_INTERVAL == 60000

\* --------------------------------------------------------------- bounds
NumHandlers == 3       \* inbound messages handled in one behaviour of SpecRace
RouterHandlers == 2    \* inbound messages handled in one behaviour of Spec
MaxPartsRouter == 1    \* stream events per response in Spec
MaxParts == 4          \* stream events per response in SpecStream
MaxRuns == 3           \* runs of older messages in a history of SpecPurge

FirstSweep == 10000      \* the setInterval callback is first due then

Handlers == 1..NumHandlers
Users == {"u1", "u2"}
\* the moments at which Date.now() is observed in Spec
Instants == {0, 2500, 10000, 12500}

\* ------------------------------------------------------------- helpers
Max(a, b) == IF a < b THEN b ELSE a

\* Math.floor in place of Math.ceil
FloorSeconds(x) == x \div 1000

\* Math.ceil(x / 1000) for an integer x > 0
CeilSeconds(x) == (x + 999) \div 1000

\* userCooldowns.get(id) || 0
CooldownGet(map, id) == IF id \in DOMAIN map THEN map[id] ELSE 0

\* userCooldowns.set(id, v)
CooldownSet(map, id, v) == [u \in DOMAIN map \cup {id} |-> IF u = id THEN v ELSE map[u]]

\* userCooldowns.delete(id)
CooldownDelete(map, id) == [u \in DOMAIN map \ {id} |-> map[u]]

RECURSIVE TextLen(_)
\* String.prototype.length of a text
TextLen(t) == IF t = <<>> THEN 0 ELSE Head(t).len + TextLen(Tail(t))

\* messageBuffer += part.textDelta
TextAppend(buf, frag) == IF frag.len = 0 THEN buf ELSE Append(buf, frag)

\* The content of an inbound message: its text and that text's length.
ClearCmd == [text |-> "!cleardm", len |-> 8]
AtLimit == [text |-> "x{2000}", len |-> 2000]
OverLimit == [text |-> "x{2001}", len |-> 2001]
Contents == {ClearCmd, AtLimit, OverLimit}

\* Tool identifiers, as sequences of segments.
PREFIX == "mastra_mastra"
ToolIds == { <<PREFIX, "Docs">>, <<"Docs", PREFIX>>, <<"Docs">>, <<PREFIX, "Blog">> }

\* part.toolName.includes("mastra_mastra")
Includes(name, seg) == \E i \in 1..Len(name) : name[i] = seg

\* part.toolName.replace("mastra_mastra", ""): the first occurrence goes
Replace(name, seg) ==
  IF ~Includes(name, seg) THEN name
  ELSE LET i == CHOOSE k \in 1..Len(name) :
                  name[k] = seg /\ \A j \in 1..(k - 1) : name[j] # seg
       IN  SubSeq(name, 1, i - 1) \o SubSeq(name, i + 1, Len(name))

NoTool == <<>>

\* Failures a rejected promise can carry, by the two fields the catch block
\* reads: error?.lastError?.statusCode and error?.lastError?.data?.error?.code.
NoError == [statusCode |-> 0, code |-> "none"]
RateLimited == [statusCode |-> 429, code |-> "rate_limit_exceeded"]
Unclassified == [statusCode |-> 0, code |-> "undefined"]
\* what the agent's calls can throw
AgentErrors == { RateLimited,
                 [statusCode |-> 429, code |-> "other"],
                 [statusCode |-> 500, code |-> "rate_limit_exceeded"],
                 Unclassified }
\* what the gateway's calls and the agent lookup can throw: a failure with
\* no lastError
GatewayErrors == { Unclassified }
LookupErrors == { Unclassified }

\* a test of the status code alone
IsRateLimitStatusOnly(e) == e.statusCode = 429

\* The catch block's test, lines 189-192
IsRateLimit(e) == e.statusCode = 429 /\ e.code = "rate_limit_exceeded"

\* ------------------------------------------------------------- state
VARIABLES
  userCooldowns,   \* Map<string, number>, line 12
  unswept,         \* what userCooldowns would hold had the callback of line 235 never run
  clock,           \* Date.now()
  pc,              \* per handler: the await it is suspended at
  message,         \* per handler: the inbound message
  now,             \* per handler: const now, line 90
  messageBuffer,   \* per handler: let messageBuffer, line 119
  checksShown,     \* per handler: the keys of checksShown, line 121
  toolName,        \* per handler: const toolName, line 132
  stream,          \* per handler: the parts fullStream has yielded so far
  hist,            \* per handler: the channel's messages, newest first, in runs
  page,            \* per handler: messages of each run in the fetched page
  cursor,          \* per handler: position of the for loop, line 30
  messagesDeleted, \* per handler: let messagesDeleted, line 16
  timerDue,        \* per handler: when the setTimeout of line 36 fires
  fetches,         \* per handler: the calls of line 21 made so far, modulo 2
  sweepDue,        \* when the setInterval callback of line 235 next fires
  error,           \* per handler: the failure caught or escaped, NoError if none
  log              \* per handler: the calls it made on its collaborators, in order

routerVars == <<userCooldowns, unswept, clock, sweepDue>>
streamVars == <<messageBuffer, checksShown, toolName, stream>>
purgeVars == <<hist, page, cursor, messagesDeleted, timerDue, fetches>>
vars == <<userCooldowns, unswept, clock, pc, message, now, messageBuffer, checksShown,
          toolName, stream, hist, page, cursor, messagesDeleted,
          timerDue, fetches, sweepDue, error, log>>

NoMessage == [author |-> "none", bot |-> FALSE, channelType |-> "none", content |-> [text |-> "", len |-> 0]]

\* One call on a collaborator: op is what was called, line the source line
\* of the call, kind/n/body what was passed.
Call(op, line, kind, n, body) ==
  [op |-> op, line |-> line, kind |-> kind, n |-> n, body |-> body]

Init ==
  /\ userCooldowns = <<>>
  /\ unswept = <<>>
  /\ clock = 0
  /\ pc = [h \in Handlers |-> "idle"]
  /\ message = [h \in Handlers |-> NoMessage]
  /\ now = [h \in Handlers |-> 0]
  /\ messageBuffer = [h \in Handlers |-> <<>>]
  /\ checksShown = [h \in Handlers |-> {}]
  /\ toolName = [h \in Handlers |-> NoTool]
  /\ stream = [h \in Handlers |-> <<>>]
  /\ hist = [h \in Handlers |-> <<>>]
  /\ page = [h \in Handlers |-> <<>>]
  /\ cursor = [h \in Handlers |-> [run |-> 1, done |-> 0]]
  /\ messagesDeleted = [h \in Handlers |-> 0]
  /\ timerDue = [h \in Handlers |-> 0]
  /\ fetches = [h \in Handlers |-> 0]
  /\ sweepDue = FirstSweep
  /\ error = [h \in Handlers |-> NoError]
  /\ log = [h \in Handlers |-> <<>>]

\* ------------------------------------------------- the message handler
\* a filter that only looks at the author
IgnoredBotsOnly(m) == m.bot

\* line 78: messages from bots and from non-DM channels are ignored
Ignored(m) == m.bot \/ m.channelType # "DM"

\* a length check that lets one character too many through
TooLongOffByOne(m) == m.content.len > MAX_MESSAGE_LENGTH + 1

\* line 81
TooLong(m) == m.content.len > MAX_MESSAGE_LENGTH

\* line 93, with cooldownEnd of line 91
CooldownDenied(map, id, t) == t < CooldownGet(map, id)

\* line 94
RemainingTime(map, id, t) == CeilSeconds(CooldownGet(map, id) - t)

\* a command test on the wrong channel type
IsClearCommandInGuild(m) == m.channelType # "DM" /\ m.content.text = "!cleardm"

\* lines 101-104
IsClearCommand(m) == m.channelType = "DM" /\ m.content.text = "!cleardm"

\* an arm that forgets the period
ArmNoPeriod(map, id, t) == CooldownSet(map, id, t)

\* line 112
Arm(map, id, t) == CooldownSet(map, id, t + COOLDOWN_PERIOD)

\* a release that clears the whole map
ReleaseAll(map, id) == <<>>

\* line 187
Release(map, id) == CooldownDelete(map, id)

\* a flush that fires at the threshold instead of beyond it
NeedsFlushAtLimit(buf) == TextLen(buf) >= DISCORD_MESSAGE_LENGTH_LIMIT

\* line 165
NeedsFlush(buf) == TextLen(buf) > DISCORD_MESSAGE_LENGTH_LIMIT

\* a final flush that reuses the threshold of line 165
NeedsFinalFlushOverLimit(buf) == TextLen(buf) > DISCORD_MESSAGE_LENGTH_LIMIT

\* line 171
NeedsFinalFlush(buf) == TextLen(buf) > 0

\* lines 189-200: the notice the catch block sends for failure e
FailureNotice(e) ==
  IF IsRateLimit(e) THEN Call("send", 193, "RequestTooLarge", 0, <<>>)
  ELSE Call("send", 197, "EncounteredError", 0, <<>>)

Outcomes(fails) == {NoError} \cup fails

\* A rejection that no try block of the handler covers: the async listener's
\* promise rejects.
Escape(h, e) ==
  /\ pc' = [pc EXCEPT ![h] = "escaped"]
  /\ error' = [error EXCEPT ![h] = e]

\* lines 183-200: the catch block, run when a failure e is thrown inside
\* the try block of lines 110-182, up to the await of the notice
Catch(h, e) ==
  /\ userCooldowns' = Release(userCooldowns, message[h].author)
  /\ unswept' = Release(unswept, message[h].author)
  /\ error' = [error EXCEPT ![h] = e]
  /\ log' = [log EXCEPT ![h] =
               @ \o << Call("release", 187, "userCooldowns.delete", 0, <<>>),
                       FailureNotice(e) >>]
  /\ pc' = [pc EXCEPT ![h] = "sendFailure"]

\* lines 76-117: a message arrives; the listener runs to its first await.
\* Messages are numbered in their order of arrival.
Receive(h, msgs) ==
  /\ pc[h] = "idle"
  /\ \A g \in Handlers : g < h => pc[g] # "idle"
  /\ \E m \in msgs :
       /\ message' = [message EXCEPT ![h] = m]
       /\ IF Ignored(m) THEN
            /\ pc' = [pc EXCEPT ![h] = "done"]
            /\ UNCHANGED <<userCooldowns, unswept, now, log>>
          ELSE IF TooLong(m) THEN
            /\ pc' = [pc EXCEPT ![h] = "replyTooLong"]
            /\ log' = [log EXCEPT ![h] =
                         Append(@, Call("send", 82, "TooLong", m.content.len, <<>>))]
            /\ UNCHANGED <<userCooldowns, unswept, now>>
          ELSE
            /\ now' = [now EXCEPT ![h] = clock]
            /\ IF CooldownDenied(userCooldowns, m.author, clock) THEN
                 /\ pc' = [pc EXCEPT ![h] = "replyWait"]
                 /\ log' = [log EXCEPT ![h] =
                              Append(@, Call("send", 95, "PleaseWait",
                                             RemainingTime(userCooldowns, m.author, clock),
                                             <<>>))]
                 /\ UNCHANGED <<userCooldowns, unswept>>
               ELSE IF IsClearCommand(m) THEN
                 /\ pc' = [pc EXCEPT ![h] = "replyAck"]
                 /\ log' = [log EXCEPT ![h] =
                              Append(@, Call("send", 105, "Deleting", 0, <<>>))]
                 /\ UNCHANGED <<userCooldowns, unswept>>
               ELSE
                 /\ userCooldowns' = Arm(userCooldowns, m.author, clock)
                 /\ unswept' = Arm(unswept, m.author, clock)
                 /\ pc' = [pc EXCEPT ![h] = "getAgent"]
                 /\ log' = [log EXCEPT ![h] =
                              @ \o << Call("arm", 112, "userCooldowns.set",
                                           clock + COOLDOWN_PERIOD, <<>>),
                                      Call("getAgent", 114, "mastra.getAgent", 0, <<>>) >>]
  /\ UNCHANGED <<clock, sweepDue, error, streamVars, purgeVars>>

\* lines 82-86 and 95-98: the awaited reply settles and the listener returns;
\* a rejection is not inside any try block
ReplyDone(h, fails) ==
  /\ pc[h] \in {"replyTooLong", "replyWait"}
  /\ \E o \in Outcomes(fails) :
       IF o = NoError THEN pc' = [pc EXCEPT ![h] = "done"] /\ UNCHANGED error
       ELSE Escape(h, o)
  /\ UNCHANGED <<routerVars, message, now, log, streamVars, purgeVars>>

\* line 114 settles; on success line 115 calls agent.stream
GetAgentDone(h, fails) ==
  /\ pc[h] = "getAgent"
  /\ \E o \in Outcomes(fails) :
       IF o = NoError THEN
         /\ pc' = [pc EXCEPT ![h] = "agentStream"]
         /\ log' = [log EXCEPT ![h] =
                      Append(@, Call("stream", 115, "agent.stream",
                                     message[h].content.len, <<>>))]
         /\ UNCHANGED <<userCooldowns, unswept, error>>
       ELSE Catch(h, o)
  /\ UNCHANGED <<clock, sweepDue, message, now, streamVars, purgeVars>>

\* line 115 settles; on success lines 119-123 start the for-await loop
AgentStreamDone(h, fails) ==
  /\ pc[h] = "agentStream"
  /\ \E o \in Outcomes(fails) :
       IF o = NoError THEN
         /\ pc' = [pc EXCEPT ![h] = "nextPart"]
         /\ messageBuffer' = [messageBuffer EXCEPT ![h] = <<>>]
         /\ checksShown' = [checksShown EXCEPT ![h] = {}]
         /\ UNCHANGED <<userCooldowns, unswept, error, log>>
       ELSE Catch(h, o) /\ UNCHANGED <<messageBuffer, checksShown>>
  /\ UNCHANGED <<clock, sweepDue, message, now, toolName, stream, purgeVars>>

\* lines 165-168: after a part is handled, flush or ask for the next part
AfterPart(h, buf, lg) ==
  IF NeedsFlush(buf) THEN
    /\ pc' = [pc EXCEPT ![h] = "sendFlush"]
    /\ log' = [log EXCEPT ![h] = Append(lg, Call("send", 166, "Text", TextLen(buf), buf))]
  ELSE
    /\ pc' = [pc EXCEPT ![h] = "nextPart"]
    /\ log' = [log EXCEPT ![h] = lg]

\* Stream events, line 125
TextDelta(n) == [type |-> "text-delta", len |-> n, toolName |-> NoTool]
ToolCall(id) == [type |-> "tool-call", len |-> 0, toolName |-> id]
ToolResult(id) == [type |-> "tool-result", len |-> 0, toolName |-> id]
ErrorPart == [type |-> "error", len |-> 0, toolName |-> NoTool]
FinishPart == [type |-> "finish", len |-> 0, toolName |-> NoTool]

\* part.textDelta of the i-th part of a stream: characters of its own
TextOf(i, p) == [i |-> i, len |-> p.len]

\* a test against one set shared by all responses
ShowsCheckShared(name, shown) ==
  /\ Includes(name, PREFIX)
  /\ Replace(name, PREFIX) \notin UNION { checksShown[g] : g \in Handlers }

\* a notice for every prefixed tool call, shown before or not
ShowsCheckAlways(name, shown) == Includes(name, PREFIX)

\* lines 129-139: whether a tool-call part sends a "Checking" notice
ShowsCheck(name, shown) == Includes(name, PREFIX) /\ Replace(name, PREFIX) \notin shown

\* an error case that returns from the listener once the notice is sent
HandleErrorReturns(h) ==
  /\ pc' = [pc EXCEPT ![h] = "done"]
  /\ log' = [log EXCEPT ![h] = Append(@, Call("send", 158, "ToolError", 0, <<>>))]
  /\ UNCHANGED <<messageBuffer, toolName>>

\* lines 156-161: the error case sends its notice and awaits it
HandleError(h) ==
  /\ pc' = [pc EXCEPT ![h] = "sendToolError"]
  /\ log' = [log EXCEPT ![h] = Append(@, Call("send", 158, "ToolError", 0, <<>>))]
  /\ UNCHANGED <<messageBuffer, toolName>>

\* lines 123-168: the iterator yields part p; the switch handles it
HandlePart(h, p) ==
  /\ stream' = [stream EXCEPT ![h] = Append(@, p)]
  /\ UNCHANGED <<userCooldowns, unswept, error, checksShown>>
  /\ IF p.type = "text-delta" THEN
       LET buf == TextAppend(messageBuffer[h], TextOf(Len(stream[h]) + 1, p))
       IN  /\ messageBuffer' = [messageBuffer EXCEPT ![h] = buf]
           /\ AfterPart(h, buf, log[h])
           /\ UNCHANGED toolName
     ELSE IF p.type = "tool-call" /\ ShowsCheck(p.toolName, checksShown[h]) THEN
       /\ toolName' = [toolName EXCEPT ![h] = Replace(p.toolName, PREFIX)]
       /\ pc' = [pc EXCEPT ![h] = "sendCheck"]
       /\ log' = [log EXCEPT ![h] =
                    Append(@, Call("send", 134, "Checking", 0, Replace(p.toolName, PREFIX)))]
       /\ UNCHANGED messageBuffer
     ELSE IF p.type = "error" THEN HandleError(h)
     ELSE
       /\ AfterPart(h, messageBuffer[h], log[h])
       /\ UNCHANGED <<messageBuffer, toolName>>

\* lines 171-174: the stream is exhausted
EndOfStream(h) ==
  /\ UNCHANGED <<userCooldowns, unswept, error, checksShown, toolName, stream>>
  /\ IF NeedsFinalFlush(messageBuffer[h]) THEN
       /\ pc' = [pc EXCEPT ![h] = "sendFinal"]
       /\ log' = [log EXCEPT ![h] =
                    Append(@, Call("send", 172, "Text", TextLen(messageBuffer[h]),
                                   messageBuffer[h]))]
       /\ UNCHANGED messageBuffer
     ELSE
       /\ pc' = [pc EXCEPT ![h] = "done"]
       /\ messageBuffer' = [messageBuffer EXCEPT ![h] = <<>>]
       /\ UNCHANGED log

\* line 123: the await of the iterator's next() settles: a part, the end of
\* the stream, or a failure of the iteration
NextPart(h, parts, maxParts, fails) ==
  /\ pc[h] = "nextPart"
  /\ \/ \E p \in parts : Len(stream[h]) < maxParts /\ HandlePart(h, p)
     \/ EndOfStream(h)
     \/ \E e \in fails : Catch(h, e) /\ UNCHANGED streamVars
  /\ UNCHANGED <<clock, sweepDue, message, now, purgeVars>>

\* lines 134-138: the "Checking" notice settles; the name is recorded
CheckSent(h, fails) ==
  /\ pc[h] = "sendCheck"
  /\ \E o \in Outcomes(fails) :
       IF o = NoError THEN
         /\ checksShown' = [checksShown EXCEPT ![h] = @ \cup {toolName[h]}]
         /\ AfterPart(h, messageBuffer[h], log[h])
         /\ UNCHANGED <<userCooldowns, unswept, error>>
       ELSE Catch(h, o) /\ UNCHANGED checksShown
  /\ UNCHANGED <<clock, sweepDue, message, now, messageBuffer, toolName, stream,
                 purgeVars>>

\* lines 158-161: the tool-error notice settles
ToolErrorSent(h, fails) ==
  /\ pc[h] = "sendToolError"
  /\ \E o \in Outcomes(fails) :
       IF o = NoError THEN
         /\ AfterPart(h, messageBuffer[h], log[h])
         /\ UNCHANGED <<userCooldowns, unswept, error>>
       ELSE Catch(h, o)
  /\ UNCHANGED <<clock, sweepDue, message, now, streamVars, purgeVars>>

\* lines 166-167: the mid-stream flush settles; the buffer is reset
FlushSent(h, fails) ==
  /\ pc[h] = "sendFlush"
  /\ \E o \in Outcomes(fails) :
       IF o = NoError THEN
         /\ messageBuffer' = [messageBuffer EXCEPT ![h] = <<>>]
         /\ pc' = [pc EXCEPT ![h] = "nextPart"]
         /\ UNCHANGED <<userCooldowns, unswept, error, log>>
       ELSE Catch(h, o) /\ UNCHANGED messageBuffer
  /\ UNCHANGED <<clock, sweepDue, message, now, checksShown, toolName, stream,
                 purgeVars>>

\* lines 172-174: the final flush settles
FinalSent(h, fails) ==
  /\ pc[h] = "sendFinal"
  /\ \E o \in Outcomes(fails) :
       IF o = NoError THEN
         /\ messageBuffer' = [messageBuffer EXCEPT ![h] = <<>>]
         /\ pc' = [pc EXCEPT ![h] = "done"]
         /\ UNCHANGED <<userCooldowns, unswept, error, log>>
       ELSE Catch(h, o) /\ UNCHANGED messageBuffer
  /\ UNCHANGED <<clock, sweepDue, message, now, checksShown, toolName, stream,
                 purgeVars>>

\* lines 193-199: the failure notice settles; its rejection leaves the handler
FailureSent(h, fails) ==
  /\ pc[h] = "sendFailure"
  /\ \E o \in Outcomes(fails) :
       IF o = NoError THEN pc' = [pc EXCEPT ![h] = "done"] /\ UNCHANGED error
       ELSE Escape(h, o)
  /\ UNCHANGED <<routerVars, message, now, log, streamVars, purgeVars>>

\* ------------------------------------------- clearBotDirectMessages
\* A history is the channel's messages, newest first, as runs of n messages
\* of one kind: by the bot or not (msg.author.id === channel.client.user.id)
\* and deletable or not (message.deletable).
BotRun(n) == [bot |-> TRUE, deletable |-> TRUE, n |-> n]
FixedBotRun(n) == [bot |-> TRUE, deletable |-> FALSE, n |-> n]
UserRun(n) == [bot |-> FALSE, deletable |-> FALSE, n |-> n]

RECURSIVE SumN(_, _)
\* the number of messages in the first k runs
SumN(hs, k) == IF k = 0 THEN 0 ELSE hs[k].n + SumN(hs, k - 1)

\* line 21: channel.messages.fetch({ limit: 100 }) returns the newest 100
\* messages; the result says how many of each run it holds
Fetch(hs) ==
  [i \in 1..Len(hs) |->
     LET room == Max(0, FETCH_LIMIT - SumN(hs, i - 1))
     IN  IF hs[i].n < room THEN hs[i].n ELSE room]

RECURSIVE SeqSum(_)
\* the sum of a sequence of numbers
SeqSum(ns) == IF ns = <<>> THEN 0 ELSE Head(ns) + SeqSum(Tail(ns))

\* messages.size
PageSize(pg) == SeqSum(pg)

\* line 24: botMessages.size
BotMessagesSize(hs, pg) ==
  SeqSum([i \in 1..Len(pg) |-> IF hs[i].bot THEN pg[i] ELSE 0])

\* bot-authored, deletable messages left in the channel
DeletableLeft(hs) ==
  SeqSum([i \in 1..Len(hs) |-> IF hs[i].bot /\ hs[i].deletable THEN hs[i].n ELSE 0])

RECURSIVE NextDeletable(_, _, _)
\* lines 30-31: the for loop moves on from cur to the next bot message of the
\* page that is deletable; run = Len(pg) + 1 when there is none
NextDeletable(hs, pg, cur) ==
  IF cur.run > Len(pg) THEN cur
  ELSE IF hs[cur.run].bot /\ hs[cur.run].deletable /\ cur.done < pg[cur.run] THEN cur
  ELSE NextDeletable(hs, pg, [run |-> cur.run + 1, done |-> 0])

\* line 27
NoBotMessages(hs, pg) == BotMessagesSize(hs, pg) = 0

\* line 39
FetchAgain(pg) == PageSize(pg) >= FETCH_LIMIT

\* line 41, then the returns of lines 46 and 107
PurgeReturns(h) ==
  /\ pc' = [pc EXCEPT ![h] = "done"]
  /\ log' = [log EXCEPT ![h] =
               Append(@, Call("log", 41, "Successfully deleted", messagesDeleted[h], <<>>))]

\* lines 30-39: the for loop goes on from cur: the next deletable bot message
\* is deleted (line 32), or the loop ends and line 39 decides
ContinueLoop(h, hs, pg, cur) ==
  LET nxt == NextDeletable(hs, pg, cur)
  IN  /\ cursor' = [cursor EXCEPT ![h] = nxt]
      /\ IF nxt.run <= Len(pg) THEN
           pc' = [pc EXCEPT ![h] = "purgeDelete"] /\ UNCHANGED <<log, fetches>>
         ELSE IF FetchAgain(pg) THEN
           /\ pc' = [pc EXCEPT ![h] = "purgeFetch"]
           /\ fetches' = [fetches EXCEPT ![h] = (@ + 1) % 2]
           /\ UNCHANGED log
         ELSE PurgeReturns(h) /\ UNCHANGED fetches

\* line 105 settles; on success line 106 calls clearBotDirectMessages, which
\* runs to the fetch of line 21.  hs is the channel's history at that moment.
ReplyAckDone(h, hists, fails) ==
  /\ pc[h] = "replyAck"
  /\ \E o \in Outcomes(fails) :
       IF o = NoError THEN
         /\ \E hs \in hists : hist' = [hist EXCEPT ![h] = hs]
         /\ messagesDeleted' = [messagesDeleted EXCEPT ![h] = 0]
         /\ fetches' = [fetches EXCEPT ![h] = (@ + 1) % 2]
         /\ pc' = [pc EXCEPT ![h] = "purgeFetch"]
         /\ log' = [log EXCEPT ![h] =
                      Append(@, Call("purge", 106, "clearBotDirectMessages",
                                     DeletableLeft(hist'[h]), <<>>))]
         /\ UNCHANGED error
       ELSE Escape(h, o) /\ UNCHANGED <<hist, messagesDeleted, fetches, log>>
  /\ UNCHANGED <<routerVars, message, now, streamVars, page, cursor, timerDue>>

\* line 21 settles: lines 24-39 up to the next await.  A rejection is
\* rethrown by line 44 and leaves the handler at line 106.
PurgeFetchDone(h, fails) ==
  /\ pc[h] = "purgeFetch"
  /\ \E o \in Outcomes(fails) :
       IF o = NoError THEN
         LET pg == Fetch(hist[h])
         IN  /\ page' = [page EXCEPT ![h] = pg]
             /\ UNCHANGED <<error, messagesDeleted>>
             /\ IF NoBotMessages(hist[h], pg) THEN
                  PurgeReturns(h) /\ UNCHANGED <<cursor, fetches>>
                ELSE ContinueLoop(h, hist[h], pg, [run |-> 1, done |-> 0])
       ELSE Escape(h, o) /\ UNCHANGED <<page, cursor, messagesDeleted, fetches, log>>
  /\ UNCHANGED <<routerVars, message, now, streamVars, hist, timerDue>>

\* line 32 settles: the message is gone, line 33 counts it and line 36 sets
\* the timer
PurgeDeleteDone(h, fails) ==
  /\ pc[h] = "purgeDelete"
  /\ \E o \in Outcomes(fails) :
       IF o = NoError THEN
         /\ hist' = [hist EXCEPT ![h][cursor[h].run].n = @ - 1]
         /\ cursor' = [cursor EXCEPT ![h].done = @ + 1]
         /\ messagesDeleted' = [messagesDeleted EXCEPT ![h] = @ + 1]
         /\ timerDue' = [timerDue EXCEPT ![h] = clock + DELETE_DELAY]
         /\ pc' = [pc EXCEPT ![h] = "purgeDelay"]
         /\ UNCHANGED error
       ELSE Escape(h, o) /\ UNCHANGED <<hist, cursor, messagesDeleted, timerDue>>
  /\ UNCHANGED <<routerVars, message, now, streamVars, page, fetches, log>>

\* line 36 settles: the timer fires once its time has come, and the for
\* loop goes on
PurgeDelayDone(h) ==
  /\ pc[h] = "purgeDelay"
  /\ clock >= timerDue[h]
  /\ ContinueLoop(h, hist[h], page[h], cursor[h])
  /\ UNCHANGED <<userCooldowns, unswept, clock, sweepDue, message, now, streamVars, hist, page,
                 messagesDeleted, timerDue, error>>

\* ------------------------------------------------ time and the sweep
\* Date.now() advances to t
Tick(t) ==
  /\ clock < t
  /\ clock' = t
  /\ UNCHANGED <<userCooldowns, unswept, sweepDue, pc, message, now, streamVars, purgeVars,
                 error, log>>

\* Date.now() advances to the time the timer of handler h is due
TimerTick(h) ==
  /\ pc[h] = "purgeDelay"
  /\ clock < timerDue[h]
  /\ clock' = timerDue[h]
  /\ UNCHANGED <<userCooldowns, unswept, sweepDue, pc, message, now, streamVars, purgeVars,
                 error, log>>

\* a cleanup that also deletes what expires within the coming period
SweptAhead(map, t) ==
  [u \in {v \in DOMAIN map : ~(map[v] < t + COOLDOWN_PERIOD)} |-> map[u]]

\* a cleanup with the comparison of line 238 turned round
SweptFuture(map, t) == [u \in {v \in DOMAIN map : ~(map[v] > t)} |-> map[u]]

\* a cleanup that also deletes the entries expiring at t
SweptInclusive(map, t) == [u \in {v \in DOMAIN map : ~(map[v] <= t)} |-> map[u]]

\* lines 237-241: the entries the cleanup callback leaves in the map
Swept(map, t) == [u \in {v \in DOMAIN map : ~(map[v] < t)} |-> map[u]]

\* lines 235-242: the setInterval callback runs
Sweep ==
  /\ clock >= sweepDue
  /\ userCooldowns' = Swept(userCooldowns, clock)
  /\ UNCHANGED unswept
  /\ sweepDue' = clock + SWEEP_INTERVAL
  /\ UNCHANGED <<clock, pc, message, now, streamVars, purgeVars, error, log>>

\* ------------------------------------------------------ specifications
Message(a, b, c, t) == [author |-> a, bot |-> b, channelType |-> c, content |-> t]

\* Spec: the router under concurrency
RouterMessages ==
  { Message(a, FALSE, "DM", t) : a \in Users, t \in Contents }
  \cup { Message("u1", TRUE, "DM", ClearCmd), Message("u2", FALSE, "GuildText", OverLimit) }
RouterParts == { TextDelta(5), TextDelta(1991), ToolCall(<<PREFIX, "Docs">>), ErrorPart }
RouterHistories == { <<BotRun(1), UserRun(1)>> }

Next ==
  \/ \E h \in 1..RouterHandlers :
       \/ Receive(h, RouterMessages)
       \/ ReplyDone(h, GatewayErrors)
       \/ GetAgentDone(h, LookupErrors)
       \/ AgentStreamDone(h, AgentErrors)
       \/ NextPart(h, RouterParts, MaxPartsRouter, AgentErrors)
       \/ CheckSent(h, GatewayErrors)
       \/ ToolErrorSent(h, GatewayErrors)
       \/ FlushSent(h, GatewayErrors)
       \/ FinalSent(h, GatewayErrors)
       \/ FailureSent(h, GatewayErrors)
       \/ ReplyAckDone(h, RouterHistories, GatewayErrors)
       \/ PurgeFetchDone(h, GatewayErrors)
       \/ PurgeDeleteDone(h, GatewayErrors)
       \/ PurgeDelayDone(h)
  \/ \E t \in Instants : Tick(t)
  \/ Sweep

Spec == Init /\ [][Next]_vars

\* SpecRace: NumHandlers messages of one user, each accepted or denied, with
\* short responses that can fail at every await
RaceMessages == { Message("u1", FALSE, "DM", AtLimit) }
RaceParts == { TextDelta(5) }

NextRace ==
  \/ \E h \in Handlers :
       \/ Receive(h, RaceMessages)
       \/ ReplyDone(h, GatewayErrors)
       \/ GetAgentDone(h, LookupErrors)
       \/ AgentStreamDone(h, GatewayErrors)
       \/ NextPart(h, RaceParts, MaxPartsRouter, GatewayErrors)
       \/ FinalSent(h, GatewayErrors)
       \/ FailureSent(h, GatewayErrors)
  \/ \E t \in Instants : Tick(t)
  \/ Sweep

SpecRace == Init /\ [][NextRace]_vars

\* SpecSweep: the cleanup callback alone, run again and again at a clock
\* that never goes back, from every map two users can have left at 12500
SweepExpiries == { t + COOLDOWN_PERIOD : t \in Instants }
SweepMaps == UNION { [D -> SweepExpiries] : D \in SUBSET Users }
SweepTimes == { 12500, 15000, 20000, 22500, 30000 }

InitSweep ==
  /\ userCooldowns \in SweepMaps
  /\ unswept = userCooldowns
  /\ clock = 12500
  /\ pc = [h \in Handlers |-> "idle"]
  /\ message = [h \in Handlers |-> NoMessage]
  /\ now = [h \in Handlers |-> 0]
  /\ messageBuffer = [h \in Handlers |-> <<>>]
  /\ checksShown = [h \in Handlers |-> {}]
  /\ toolName = [h \in Handlers |-> NoTool]
  /\ stream = [h \in Handlers |-> <<>>]
  /\ hist = [h \in Handlers |-> <<>>]
  /\ page = [h \in Handlers |-> <<>>]
  /\ cursor = [h \in Handlers |-> [run |-> 1, done |-> 0]]
  /\ messagesDeleted = [h \in Handlers |-> 0]
  /\ timerDue = [h \in Handlers |-> 0]
  /\ fetches = [h \in Handlers |-> 0]
  /\ sweepDue = FirstSweep
  /\ error = [h \in Handlers |-> NoError]
  /\ log = [h \in Handlers |-> <<>>]

\* lines 236-241: the body of the callback, run at time t
SweepAt(t) ==
  /\ t >= clock
  /\ clock' = t
  /\ userCooldowns' = Swept(userCooldowns, t)
  /\ sweepDue' = t + SWEEP_INTERVAL
  /\ UNCHANGED <<unswept, pc, message, now, streamVars, purgeVars, error, log>>

NextSweep == \E t \in SweepTimes : SweepAt(t)

SpecSweep == InitSweep /\ [][NextSweep]_vars

\* SpecStream: one response, over every stream of at most MaxParts parts
StreamMessages == { Message("u1", FALSE, "DM", AtLimit) }
FragmentLengths == {0, 1, 1000, 1009, 1990, 1991, 3000}
StreamParts ==
  { TextDelta(n) : n \in FragmentLengths } \cup { ToolCall(id) : id \in ToolIds }
  \cup { ToolResult(<<PREFIX, "Docs">>), ErrorPart, FinishPart }

NextStream ==
  \/ Receive(1, StreamMessages)
  \/ GetAgentDone(1, LookupErrors)
  \/ AgentStreamDone(1, GatewayErrors)
  \/ NextPart(1, StreamParts, MaxParts, GatewayErrors)
  \/ CheckSent(1, GatewayErrors)
  \/ ToolErrorSent(1, GatewayErrors)
  \/ FlushSent(1, GatewayErrors)
  \/ FinalSent(1, GatewayErrors)
  \/ FailureSent(1, GatewayErrors)

SpecStream == Init /\ [][NextStream]_vars

\* SpecPurge: one !cleardm, over histories of the channel.  When line 106
\* runs, the newest messages are the acknowledgement of line 105 and the
\* command itself; older messages follow in at most MaxRuns runs.
PurgeMessages == { Message("u1", FALSE, "DM", ClearCmd) }
RunCounts == {1, 98, 100, 150}
Runs == { BotRun(n) : n \in RunCounts } \cup { FixedBotRun(n) : n \in RunCounts }
        \cup { UserRun(n) : n \in RunCounts }
OlderRuns == UNION { [1..k -> Runs] : k \in 0..MaxRuns }
PurgeHistories == { <<BotRun(1), UserRun(1)>> \o older : older \in OlderRuns }

NextPurge ==
  \/ Receive(1, PurgeMessages)
  \/ ReplyAckDone(1, PurgeHistories, GatewayErrors)
  \/ PurgeFetchDone(1, GatewayErrors)
  \/ PurgeDeleteDone(1, GatewayErrors)
  \/ PurgeDelayDone(1)
  \/ TimerTick(1)

SpecPurge == Init /\ [][NextPurge]_vars

\* SpecPurgeLive: one !cleardm where every call returns: no awaited promise
\* rejects, each one settles and the event loop runs its continuation
NoErrors == {}
LiveRunCounts == {1, 100}
LiveRuns == { BotRun(n) : n \in LiveRunCounts } \cup { FixedBotRun(n) : n \in LiveRunCounts }
            \cup { UserRun(n) : n \in LiveRunCounts }
LiveHistories ==
  { <<BotRun(1), UserRun(1)>> \o older :
      older \in UNION { [1..k -> LiveRuns] : k \in 0..MaxRuns } }

NextPurgeLive ==
  \/ Receive(1, PurgeMessages)
  \/ ReplyAckDone(1, LiveHistories, NoErrors)
  \/ PurgeFetchDone(1, NoErrors)
  \/ PurgeDeleteDone(1, NoErrors)
  \/ PurgeDelayDone(1)
  \/ TimerTick(1)

SpecPurgeLive == Init /\ [][NextPurgeLive]_vars /\ WF_vars(NextPurgeLive)

\* ------------------------------------------------------------- claims
\* what handler h sent as text of the response (lines 166 and 172), in order
TextSends(h) == SelectSeq(log[h], LAMBDA c : c.op = "send" /\ c.kind = "Text")

\* the flushes handler h made inside the loop (line 166)
MidFlushes(h) == SelectSeq(log[h], LAMBDA c : c.op = "send" /\ c.line = 166)

RECURSIVE ConcatBodies(_)
ConcatBodies(calls) ==
  IF calls = <<>> THEN <<>> ELSE Head(calls).body \o ConcatBodies(Tail(calls))

RECURSIVE FragmentsUpTo(_, _)
\* the text-delta payloads of the first k parts of a stream, concatenated
FragmentsUpTo(st, k) ==
  IF k = 0 THEN <<>>
  ELSE IF st[k].type = "text-delta"
       THEN TextAppend(FragmentsUpTo(st, k - 1), TextOf(k, st[k]))
       ELSE FragmentsUpTo(st, k - 1)

Fragments(h) == FragmentsUpTo(stream[h], Len(stream[h]))

Called(h, op) == \E i \in 1..Len(log[h]) : log[h][i].op = op

\* handler h consumed its stream to the end and nothing was thrown
Consumed(h) == pc[h] = "done" /\ error[h] = NoError /\ Called(h, "stream")

NoToolCalls(h) == \A i \in 1..Len(stream[h]) : stream[h][i].type # "tool-call"

\* C1 as stated: every text message the streamer sends, mid-stream or final,
\* has at most 2000 characters.
CexC1 ==
  \A h \in Handlers : \A i \in 1..Len(TextSends(h)) :
    TextLen(TextSends(h)[i].body) <= 2000

\* C2: when the stream is consumed to its end without a failure, the text
\* messages sent, concatenated in the order sent, are exactly the text-delta
\* payloads concatenated in the order emitted.
ThmC2 ==
  \A h \in Handlers : Consumed(h) => ConcatBodies(TextSends(h)) = Fragments(h)

WitC2 ==
  \E h \in Handlers :
    /\ Consumed(h)
    /\ Len(TextSends(h)) = 2
    /\ Len(Fragments(h)) >= 3
    /\ \E i \in 1..Len(log[h]) : log[h][i].kind \in {"Checking", "ToolError"}

\* C3 as stated: every message flushed mid-stream has at most 1990
\* characters, and 3000 characters of fragments without tool calls give
\* exactly two messages, the first flushed mid-stream.
CexC3 ==
  \A h \in Handlers :
    /\ \A i \in 1..Len(MidFlushes(h)) : TextLen(MidFlushes(h)[i].body) <= 1990
    /\ (Consumed(h) /\ NoToolCalls(h) /\ TextLen(Fragments(h)) = 3000)
         => /\ Len(TextSends(h)) = 2
            /\ TextSends(h)[1].line = 166
            /\ TextSends(h)[2].line = 172

\* C3 amended: every message flushed mid-stream has more than 1990
\* characters, and 3000 characters of fragments without tool calls give one
\* or two messages: one flushed mid-stream and, if text remains after it, a
\* final one with the remainder.
ThmC3 ==
  \A h \in Handlers :
    /\ \A i \in 1..Len(MidFlushes(h)) : TextLen(MidFlushes(h)[i].body) > 1990
    /\ (Consumed(h) /\ NoToolCalls(h) /\ TextLen(Fragments(h)) = 3000)
         => /\ Len(TextSends(h)) \in {1, 2}
            /\ TextSends(h)[1].line = 166
            /\ Len(TextSends(h)) = 2
                 => /\ TextSends(h)[2].line = 172
                    /\ TextLen(TextSends(h)[1].body) + TextLen(TextSends(h)[2].body) = 3000

WitC3 ==
  \E h \in Handlers :
    /\ Consumed(h) /\ NoToolCalls(h) /\ TextLen(Fragments(h)) = 3000
    /\ Len(TextSends(h)) = 2
    /\ TextLen(TextSends(h)[1].body) = 1991
    /\ TextLen(TextSends(h)[2].body) = 1009

\* the call of clearBotDirectMessages in the log of handler h
PurgeCall(h) == log[h][CHOOSE i \in 1..Len(log[h]) : log[h][i].op = "purge"]

\* C10 as stated: after History Purge completes without error, no deletable
\* bot message remains in the channel and the count reported is the number
\* of them that existed before.
CexC10 ==
  \A h \in Handlers :
    (pc[h] = "done" /\ Called(h, "purge"))
      => DeletableLeft(hist[h]) = 0 /\ messagesDeleted[h] = PurgeCall(h).n

\* ------------------------------------------------- claims on the router
\* the message of handler h reached the handler's checks: a direct message
\* of a user that is not a bot
Direct(m) == ~m.bot /\ m.channelType = "DM"

\* this step is the arrival of handler h's message
Arrives(h) == pc[h] = "idle" /\ pc'[h] # "idle"

\* this step is a step of handler h
Moves(h) ==
  <<pc[h], log[h], error[h], messageBuffer[h], page[h], cursor[h], hist[h]>>'
    # <<pc[h], log[h], error[h], messageBuffer[h], page[h], cursor[h], hist[h]>>

Sends(h, kinds) == SelectSeq(log[h], LAMBDA c : c.op = "send" /\ c.kind \in kinds)

FailureKinds == {"RequestTooLarge", "EncounteredError"}

\* the expiry of user u's entry is still ahead at time t
InCooldown(u, t) == u \in DOMAIN userCooldowns /\ userCooldowns[u] > t

\* C4: a direct message longer than 2000 gets exactly one "too long" notice;
\* its handler calls neither the agent nor the purge and never changes the
\* cooldown map, whatever the sender's cooldown.
ThmC4 ==
  /\ [](\A h \in Handlers :
          (pc[h] # "idle" /\ Direct(message[h]) /\ message[h].content.len > 2000)
            => /\ log[h] = << Call("send", 82, "TooLong", message[h].content.len, <<>>) >>
               /\ pc[h] \in {"replyTooLong", "done", "escaped"})
  /\ [][\A h \in Handlers :
          (Moves(h) /\ Direct(message'[h]) /\ message'[h].content.len > 2000)
            => userCooldowns' = userCooldowns]_vars

\* an over-long message that arrived while its sender's cooldown was running
WitC4 ==
  /\ Direct(message[2]) /\ message[2].content.len > 2000 /\ pc[2] = "done"
  /\ message[1].author = message[2].author
  /\ Called(1, "arm") /\ ~Called(1, "release")
  /\ InCooldown(message[2].author, clock)

\* C5: a direct message of at most 2000 characters, !cleardm included, from
\* a user whose entry has expiry > now gets exactly one "Please wait N
\* seconds" notice with N = ceil((expiry - now) / 1000) >= 1; its handler
\* calls neither the agent nor the purge and never changes the cooldown map.
ThmC5 ==
  /\ [][\A h \in Handlers :
          (/\ Arrives(h) /\ Direct(message'[h]) /\ message'[h].content.len <= 2000
           /\ InCooldown(message'[h].author, clock))
            => LET expiry == userCooldowns[message'[h].author]
                   N == log'[h][1].n
               IN  /\ pc'[h] = "replyWait"
                   /\ Len(log'[h]) = 1
                   /\ log'[h][1].op = "send" /\ log'[h][1].kind = "PleaseWait"
                   /\ N * 1000 >= expiry - clock /\ (N - 1) * 1000 < expiry - clock
                   /\ N >= 1
                   /\ userCooldowns' = userCooldowns]_vars
  /\ [](\A h \in Handlers :
          Sends(h, {"PleaseWait"}) # <<>>
            => Len(log[h]) = 1 /\ pc[h] \in {"replyWait", "done", "escaped"})
  /\ [][\A h \in Handlers :
          (Moves(h) /\ Sends(h, {"PleaseWait"})' # <<>>)
            => userCooldowns' = userCooldowns]_vars

\* a !cleardm that was told to wait 8 seconds, 7500 ms before the expiry
WitC5 ==
  \E h \in Handlers :
    /\ pc[h] = "done" /\ message[h].content = ClearCmd
    /\ Sends(h, {"PleaseWait"}) # <<>> /\ log[h][1].n = 8

\* the message is accepted on arrival: not too long, not denied, no command
Accepted(m) ==
  /\ Direct(m) /\ m.content.len <= 2000 /\ m.content.text # "!cleardm"
  /\ ~InCooldown(m.author, clock)

\* C6: an accepted message arriving at time now sets its sender's entry to
\* now + 10000 before the agent is invoked: wherever the invocation has
\* started, this handler has armed the entry before.
ThmC6 ==
  /\ [][\A h \in Handlers :
          (Arrives(h) /\ Accepted(message'[h]))
            => /\ now'[h] = clock
               /\ message'[h].author \in DOMAIN userCooldowns'
               /\ userCooldowns'[message'[h].author] = clock + 10000
               /\ \A u \in DOMAIN userCooldowns' \ {message'[h].author} :
                    u \in DOMAIN userCooldowns /\ userCooldowns'[u] = userCooldowns[u]
               /\ ~Called(h, "stream")']_vars
  /\ [](\A h \in Handlers :
          Called(h, "stream")
            => \E i, j \in 1..Len(log[h]) :
                 /\ i < j
                 /\ log[h][i].op = "arm" /\ log[h][i].n = now[h] + 10000
                 /\ log[h][j].op = "stream")

\* the agent is being invoked and the entry armed by this handler stands
WitC6 ==
  \E h \in Handlers :
    /\ pc[h] = "agentStream" /\ Called(h, "stream")
    /\ now[h] = 2500
    /\ InCooldown(message[h].author, clock)
    /\ userCooldowns[message[h].author] = 12500

\* this step takes handler h into the catch block
Catches(h) == pc[h] # "sendFailure" /\ pc'[h] = "sendFailure"

\* C7: a failure thrown in the streaming path removes the sender's entry and
\* sends exactly one failure notice, "request was too large" iff the failure
\* has status code 429 and code rate_limit_exceeded; after the release a
\* message of the same user is accepted at once.
ThmC7 ==
  /\ [][\A h \in Handlers :
          Catches(h)
            => LET e == error'[h]
                   notice == log'[h][Len(log'[h])]
               IN  /\ e # NoError
                   /\ message[h].author \notin DOMAIN userCooldowns'
                   /\ \A u \in DOMAIN userCooldowns \ {message[h].author} :
                        u \in DOMAIN userCooldowns' /\ userCooldowns'[u] = userCooldowns[u]
                   /\ Len(Sends(h, FailureKinds)') = 1
                   /\ notice.op = "send"
                   /\ notice.kind = "RequestTooLarge"
                        <=> (e.statusCode = 429 /\ e.code = "rate_limit_exceeded")
                   /\ notice.kind = "EncounteredError"
                        <=> ~(e.statusCode = 429 /\ e.code = "rate_limit_exceeded")
                   /\ ~CooldownDenied(userCooldowns', message[h].author, clock')]_vars
  /\ [](\A h \in Handlers :
          /\ Len(Sends(h, FailureKinds)) <= 1
          /\ Sends(h, FailureKinds) # <<>> => Called(h, "release")
          /\ (Called(h, "getAgent") /\ error[h] # NoError)
               => /\ Len(Sends(h, FailureKinds)) = 1
                  /\ pc[h] \in {"sendFailure", "done", "escaped"})
  /\ [][\A h \in Handlers :
          (Moves(h) /\ Called(h, "getAgent") /\ pc'[h] # "sendFailure")
            => /\ userCooldowns' = userCooldowns
               /\ (error'[h] # error[h] => pc[h] = "sendFailure")]_vars

\* a rate-limit failure was reported to the user, and the user's next
\* message was accepted inside the ten seconds of the failed one
WitC7 ==
  /\ Sends(1, {"RequestTooLarge"}) # <<>>
  /\ message[2].author = message[1].author
  /\ Called(2, "stream")
  /\ now[2] = now[1]

\* C8 as stated, for the failure it names: a failure raised during History
\* Purge is turned into one failure notice by the handler and does not
\* escape it.
CexC8 ==
  \A h \in Handlers :
    (Called(h, "purge") /\ error[h] # NoError)
      => pc[h] # "escaped" /\ Len(Sends(h, FailureKinds)) = 1

\* handler h is on the !cleardm path
OnClearPath(h) == log[h] # <<>> /\ log[h][1].kind = "Deleting"

\* C9: a direct message that is exactly !cleardm, from a sender who is not
\* denied, is acknowledged and purged without arming the cooldown and
\* without invoking the agent: no step of its handler changes the map.
ThmC9 ==
  /\ [][\A h \in Handlers :
          (/\ Arrives(h) /\ Direct(message'[h]) /\ message'[h].content.text = "!cleardm"
           /\ ~InCooldown(message'[h].author, clock))
            => /\ pc'[h] = "replyAck"
               /\ log'[h] = << Call("send", 105, "Deleting", 0, <<>>) >>]_vars
  /\ [][\A h \in Handlers :
          (Moves(h) /\ OnClearPath(h)') => userCooldowns' = userCooldowns]_vars
  /\ [](\A h \in Handlers :
          OnClearPath(h)
            => /\ ~Called(h, "arm") /\ ~Called(h, "getAgent") /\ ~Called(h, "stream")
               /\ Sends(h, {"PleaseWait"}) = <<>>
               /\ (pc[h] = "done" => Len(log[h]) >= 2 /\ log[h][2].op = "purge"))
  /\ []((\A h \in Handlers : pc[h] # "idle" => OnClearPath(h)) => userCooldowns = <<>>)

\* two !cleardm of one user at the same moment, both purged
WitC9 ==
  /\ message[1].author = message[2].author
  /\ OnClearPath(1) /\ OnClearPath(2)
  /\ pc[1] = "done" /\ pc[2] = "done" /\ error[1] = NoError /\ error[2] = NoError
  /\ now[1] = now[2]
  /\ userCooldowns = <<>>

\* ------------------------------------------------ claims on tool notices
\* the tool-call parts handler h has been handed so far
ToolCallsOf(h) == { i \in 1..Len(stream[h]) : stream[h][i].type = "tool-call" }

\* the display name of every tool identifier called in the response
AllDisplayNames(h) == { Replace(stream[h][i].toolName, PREFIX) : i \in ToolCallsOf(h) }

\* the display names of the called identifiers that hold the prefix
DisplayNames(h) ==
  { Replace(stream[h][i].toolName, PREFIX) :
      i \in { j \in ToolCallsOf(h) : Includes(stream[h][j].toolName, PREFIX) } }

\* the "Checking <d>" notices handler h sent
Checks(h, d) ==
  SelectSeq(log[h], LAMBDA c : c.op = "send" /\ c.kind = "Checking" /\ c.body = d)

\* C11 as stated: in a response consumed to its end, every display name of
\* a called tool gets exactly one "Checking" notice, whether or not the raw
\* identifier holds the prefix.
CexC11 ==
  \A h \in Handlers :
    Consumed(h) => \A d \in AllDisplayNames(h) : Len(Checks(h, d)) = 1

\* C11 amended: a display name gets a "Checking" notice only from an
\* identifier that holds the prefix, never more than one, and exactly one
\* once the response is consumed to its end; a name called only through
\* identifiers without the prefix gets none.
ThmC11 ==
  \A h \in Handlers :
    /\ \A i \in 1..Len(log[h]) :
         log[h][i].kind = "Checking"
           => /\ log[h][i].body \in DisplayNames(h)
              /\ Len(Checks(h, log[h][i].body)) = 1
    /\ Consumed(h)
         => /\ \A d \in DisplayNames(h) : Len(Checks(h, d)) = 1
            /\ \A d \in AllDisplayNames(h) \ DisplayNames(h) : Len(Checks(h, d)) = 0

\* "Docs" called twice through one prefixed identifier, once through
\* another and once without the prefix: one notice
WitC11 ==
  \E h \in Handlers :
    /\ Consumed(h)
    /\ \E i, j \in ToolCallsOf(h) :
         /\ i < j
         /\ stream[h][i].toolName = <<PREFIX, "Docs">>
         /\ stream[h][j].toolName = <<PREFIX, "Docs">>
    /\ \E i \in ToolCallsOf(h) : stream[h][i].toolName = <<"Docs", PREFIX>>
    /\ \E i \in ToolCallsOf(h) : stream[h][i].toolName = <<"Docs">>
    /\ Len(Checks(h, <<"Docs">>)) = 1

\* ------------------------------------------------ claims on error events
\* the error parts handler h has been handed so far
ErrorPartsOf(h) == { i \in 1..Len(stream[h]) : stream[h][i].type = "error" }

\* the positions in the log of the "error executing the tool" notices
ToolErrorCalls(h) == { q \in 1..Len(log[h]) : log[h][q].kind = "ToolError" }

\* the text handler h had sent when it made its q-th call
TextSentBy(h, q) ==
  ConcatBodies(SelectSeq(SubSeq(log[h], 1, q),
                         LAMBDA c : c.op = "send" /\ c.kind = "Text"))

IsPrefix(a, b) == Len(a) <= Len(b) /\ SubSeq(b, 1, Len(a)) = a

\* C12: an error event does not abort the response.  While nothing has been
\* thrown, there is one "error executing the tool" notice per error event,
\* sent after no more text than the fragments that came before the event;
\* the catch block is not entered, the sender's entry stays armed, and a
\* response consumed to its end has delivered every fragment in order.
ThmC12 ==
  /\ [](\A h \in Handlers :
          (Called(h, "stream") /\ error[h] = NoError)
            => /\ Cardinality(ToolErrorCalls(h)) = Cardinality(ErrorPartsOf(h))
               /\ \A q \in ToolErrorCalls(h) : \A k \in ErrorPartsOf(h) :
                    Cardinality({r \in ToolErrorCalls(h) : r <= q})
                      = Cardinality({j \in ErrorPartsOf(h) : j <= k})
                    => IsPrefix(TextSentBy(h, q), FragmentsUpTo(stream[h], k - 1))
               /\ ~Called(h, "release") /\ Sends(h, FailureKinds) = <<>>
               /\ pc[h] # "sendFailure"
               /\ CooldownGet(userCooldowns, message[h].author) = now[h] + COOLDOWN_PERIOD
               /\ (pc[h] = "done" => ConcatBodies(TextSends(h)) = Fragments(h)))
  /\ [][\A h \in Handlers :
          (pc[h] = "nextPart" /\ pc'[h] = "sendToolError")
            => /\ stream'[h] = Append(stream[h], ErrorPart)
               /\ userCooldowns' = userCooldowns /\ error' = error
               /\ messageBuffer' = messageBuffer]_vars
  /\ [][\A h \in Handlers :
          (pc[h] = "sendToolError" /\ pc'[h] # "sendToolError" /\ error'[h] = NoError)
            => /\ pc'[h] \in {"nextPart", "sendFlush"}
               /\ userCooldowns' = userCooldowns
               /\ stream' = stream]_vars

\* two error events, the first between two fragments: both notices sent,
\* the text after the first error delivered, the entry still armed
WitC12 ==
  \E h \in Handlers :
    /\ Consumed(h)
    /\ Len(stream[h]) = 4
    /\ stream[h][1].type = "text-delta" /\ stream[h][1].len = 1
    /\ stream[h][2].type = "error"
    /\ stream[h][3].type = "text-delta" /\ stream[h][3].len = 1000
    /\ stream[h][4].type = "error"
    /\ Len(Sends(h, {"ToolError"})) = 2
    /\ TextLen(ConcatBodies(TextSends(h))) = 1001
    /\ InCooldown(message[h].author, clock)

\* --------------------------------------------- claims on ignored messages
\* C13: a message written by a bot, or not delivered over a direct channel,
\* causes no outbound message, no agent invocation, no purge and no change
\* of the cooldown map, whatever its text: its handler returns at once.
ThmC13 ==
  /\ [](\A h \in Handlers :
          (pc[h] # "idle" /\ (message[h].bot \/ message[h].channelType # "DM"))
            => log[h] = <<>> /\ pc[h] = "done" /\ error[h] = NoError)
  /\ [][\A h \in Handlers :
          (Arrives(h) /\ (message'[h].bot \/ message'[h].channelType # "DM"))
            => /\ userCooldowns' = userCooldowns
               /\ pc'[h] = "done" /\ log'[h] = <<>>
               /\ now' = now /\ hist' = hist /\ stream' = stream]_vars

\* an over-long message in a guild channel and a !cleardm written by a bot
\* in a direct channel, both dropped
WitC13 ==
  /\ pc[1] = "done" /\ pc[2] = "done"
  /\ ~message[1].bot /\ message[1].channelType = "GuildText"
  /\ message[1].content.len > 2000
  /\ message[2].bot /\ message[2].channelType = "DM"
  /\ message[2].content.text = "!cleardm"
  /\ log[1] = <<>> /\ log[2] = <<>>
  /\ userCooldowns = <<>>

\* ----------------------------------------- claims on the cooldown interval
\* handler h's message was accepted into the streaming path
Streamed(h) == Called(h, "arm")

\* C14 as stated: two messages of one user accepted into the streaming path
\* have acceptance times at least 10000 ms apart, unless the earlier of the
\* two ended in the error path.
CexC14 ==
  \A g, h \in Handlers :
    (/\ g < h /\ Streamed(g) /\ Streamed(h)
     /\ message[g].author = message[h].author)
      => now[h] - now[g] >= 10000 \/ Called(g, "release")

\* ------------------------------------------- claims on purge termination
\* C15 as stated: once History Purge has been called it ends, so the
\* handler of a !cleardm is never left pending.
CexC15 ==
  \A h \in Handlers : Called(h, "purge") ~> (pc[h] \in {"done", "escaped"})

\* --------------------------------------------------- claims on the sweep
\* this step is a run of the cleanup callback
Sweeps == sweepDue' # sweepDue

\* C16 as stated: the sweep at time now removes every entry whose expiry is
\* less than or equal to now and no entry whose expiry is greater than now.
CexC16 ==
  [][Sweeps =>
       \A u \in DOMAIN userCooldowns :
         /\ userCooldowns[u] <= clock => u \notin DOMAIN userCooldowns'
         /\ userCooldowns[u] > clock
              => u \in DOMAIN userCooldowns' /\ userCooldowns'[u] = userCooldowns[u]]_vars

\* C16 amended: the sweep at time now removes every entry whose expiry is
\* less than now and no other: an entry whose expiry is now or later stays
\* as it is, and no entry is created.
ThmC16 ==
  [][Sweeps =>
       /\ DOMAIN userCooldowns' \subseteq DOMAIN userCooldowns
       /\ \A u \in DOMAIN userCooldowns :
            /\ userCooldowns[u] < clock => u \notin DOMAIN userCooldowns'
            /\ userCooldowns[u] >= clock
                 => u \in DOMAIN userCooldowns' /\ userCooldowns'[u] = userCooldowns[u]
       /\ clock' = clock /\ pc' = pc /\ log' = log]_vars

\* the sweep at 12500 has removed the entry of u1 that expired at 10000 and
\* kept the entry of u2 that expires at 12500
WitC16 ==
  /\ clock = 12500 /\ sweepDue = 12500 + SWEEP_INTERVAL
  /\ message[1].author = "u1" /\ Called(1, "arm") /\ ~Called(1, "release")
  /\ now[1] = 0
  /\ message[2].author = "u2" /\ Called(2, "arm") /\ ~Called(2, "release")
  /\ now[2] = 2500
  /\ "u1" \notin DOMAIN userCooldowns
  /\ "u2" \in DOMAIN userCooldowns /\ userCooldowns["u2"] = 12500

\* C17: with a non-decreasing clock, running the sweep between the steps of
\* the handlers never changes the outcome of a cooldown check: for every
\* user and every time from now on, the check on the map allows or denies,
\* and reports the same remaining seconds, as it would on the map that no
\* sweep has touched.
ThmC17 ==
  /\ [](\A u \in Users : \A t \in Instants :
          t >= clock
            => /\ CooldownDenied(userCooldowns, u, t) = CooldownDenied(unswept, u, t)
               /\ CooldownDenied(unswept, u, t)
                    => RemainingTime(userCooldowns, u, t) = RemainingTime(unswept, u, t))
  /\ [](\A u \in DOMAIN userCooldowns :
          u \in DOMAIN unswept /\ unswept[u] = userCooldowns[u])
  /\ [][clock' >= clock]_vars

\* the sweep at 12500 removed the entry of u1; a !cleardm of u1 that arrived
\* after it was allowed, as it would have been with the entry still there
WitC17 ==
  /\ sweepDue = 12500 + SWEEP_INTERVAL
  /\ "u1" \notin DOMAIN userCooldowns
  /\ "u1" \in DOMAIN unswept /\ unswept["u1"] = 10000
  /\ message[2].author = "u1" /\ now[2] = 12500
  /\ OnClearPath(2)
  /\ "u2" \notin DOMAIN unswept

\* ------------------------------------------- claims on per-user isolation
\* user v's entry is the same in both maps
SameEntry(m1, m2, v) ==
  /\ v \in DOMAIN m1 <=> v \in DOMAIN m2
  /\ v \in DOMAIN m1 => m1[v] = m2[v]

\* what handler h alone makes of its sender's entry: armed at its arrival
\* and not released since
Holds(h) == Called(h, "arm") /\ ~Called(h, "release")

\* C18: a step of the handler of a message from user U never creates,
\* changes or removes the entry of another user V, and handlers of different
\* users commute on the map: whatever the order of their steps, the map
\* holds for each of them what that handler alone has made of its sender's
\* entry (less what a sweep has removed as expired).
ThmC18 ==
  /\ [][\A h \in Handlers :
          Moves(h) => \A v \in Users \ {message'[h].author} :
                        /\ SameEntry(userCooldowns, userCooldowns', v)
                        /\ SameEntry(unswept, unswept', v)]_vars
  /\ [](\A g, h \in Handlers :
          (/\ g # h /\ pc[g] # "idle" /\ pc[h] # "idle"
           /\ Direct(message[g]) /\ Direct(message[h])
           /\ message[g].author # message[h].author
           /\ \A k \in Handlers \ {g, h} : pc[k] = "idle")
            => /\ DOMAIN unswept = { message[k].author : k \in {j \in {g, h} : Holds(j)} }
               /\ Holds(h) => unswept[message[h].author] = now[h] + COOLDOWN_PERIOD
               /\ \A u \in DOMAIN unswept :
                    \/ u \in DOMAIN userCooldowns /\ userCooldowns[u] = unswept[u]
                    \/ u \notin DOMAIN userCooldowns /\ unswept[u] < clock)

\* u1's response failed and released u1's entry while u2's response was
\* running: the entry of u2, armed at the same moment, stands
WitC18 ==
  /\ message[1].author = "u1" /\ message[2].author = "u2"
  /\ now[1] = now[2]
  /\ Called(1, "release") /\ pc[1] = "done"
  /\ Holds(2) /\ Called(2, "stream") /\ pc[2] = "done"
  /\ DOMAIN userCooldowns = {"u2"}
  /\ userCooldowns["u2"] = now[2] + COOLDOWN_PERIOD

\* ------------------------------------------- claims on repeated sweeps
\* the callback has just run at the current time
JustSwept == sweepDue = clock + SWEEP_INTERVAL

\* C19: sweeps repeated at a clock that never goes back never remove an
\* entry whose expiry is still in the future, and a second sweep at the same
\* time right after a first one leaves the map as it is.
ThmC19 ==
  /\ [](\A u \in DOMAIN unswept :
          unswept[u] > clock
            => u \in DOMAIN userCooldowns /\ userCooldowns[u] = unswept[u])
  /\ [](JustSwept => Swept(userCooldowns, clock) = userCooldowns)
  /\ [](JustSwept => Swept(Swept(unswept, clock), clock) = userCooldowns)
  /\ [][Sweeps =>
          /\ clock' >= clock
          /\ DOMAIN userCooldowns' \subseteq DOMAIN userCooldowns
          /\ \A u \in DOMAIN userCooldowns :
               userCooldowns[u] > clock'
                 => u \in DOMAIN userCooldowns' /\ userCooldowns'[u] = userCooldowns[u]]_vars

\* after the sweeps up to 20000 the entry that expired at 12500 is gone and
\* the entry that expires at 22500 stands
WitC19 ==
  /\ JustSwept /\ clock = 20000
  /\ DOMAIN unswept = {"u1", "u2"}
  /\ unswept["u1"] = 12500 /\ unswept["u2"] = 22500
  /\ DOMAIN userCooldowns = {"u2"} /\ userCooldowns["u2"] = 22500

\* --------------------------------- claims on the scope of the notice set
\* C20: the set of tools already announced belongs to one response.  Every
\* response that is handed a call of a prefixed tool sends its own
\* "Checking" notice for it, whatever other responses have announced, and
\* a handler only ever writes its own set, which starts empty.
ThmC20 ==
  /\ [](\A h \in Handlers : \A d \in DisplayNames(h) : Len(Checks(h, d)) = 1)
  /\ [](\A h \in Handlers :
          checksShown[h] \subseteq { log[h][i].body : i \in 1..Len(log[h]) })
  /\ [][\A h \in Handlers :
          checksShown'[h] # checksShown[h]
            => /\ Moves(h)
               /\ \A g \in Handlers \ {h} : checksShown'[g] = checksShown[g]]_vars
  /\ [][\A h \in Handlers :
          (pc[h] = "agentStream" /\ pc'[h] = "nextPart") => checksShown'[h] = {}]_vars

\* two users' responses running at the same time, each of which has
\* announced the same tool
WitC20 ==
  /\ message[1].author # message[2].author
  /\ now[1] = now[2]
  /\ checksShown[1] = { <<"Docs">> } /\ checksShown[2] = { <<"Docs">> }
  /\ Len(Checks(1, <<"Docs">>)) = 1 /\ Len(Checks(2, <<"Docs">>)) = 1
  /\ pc[1] = "nextPart" /\ pc[2] = "nextPart"

====
